---- MODULE Spec2Model ----
(***************************************************************************)
(* A model of the acquisition pipeline of src/scrape: the page fetcher     *)
(* (AmazonScraper._fetch_page_html with its retry on status 520 and its    *)
(* local-snapshot substitution), the result-list extractor                 *)
(* (extract_search_results) and the orchestrator (scrape_products) with    *)
(* its asyncio tasks.                                                      *)
(*                                                                         *)
(* Strings are sequences of one-character strings, so that the string      *)
(* operations of the code ("in", split, startswith, re.search) are         *)
(* computed as the code computes them.  asyncio runs one coroutine at a    *)
(* time and switches only at an await: every action below is the code      *)
(* between two suspension points of one coroutine.                         *)
(***************************************************************************)
EXTENDS Naturals, Sequences, FiniteSets, TLC

VARIABLES
    zyte_api_key,       \* settings.zyte_api_key: "" or a key
    use_local_html,     \* the use_local_html argument (scraper.use_local_html)
    files,              \* the snapshot directory: file name -> content
    query,              \* scrape_products' query argument
    n,                  \* scrape_products' n argument
    pc,                 \* where the main coroutine is
    list_fetch,         \* the _fetch_page_html call of get_top_products
    candidates,         \* what get_top_products returned
    basic_products,     \* scrape_products' basic_products
    tasks,              \* scrape_products' tasks, each with its fetch
    completion,         \* the tasks that are done, in the order they finished
    pacing,             \* asyncio.sleep(product_delay_seconds) calls made
    results,            \* what asyncio.gather returned
    detailed_products,  \* scrape_products' detailed_products
    saved,              \* the calls of the sink (save_to_jsonl, save_to_csv)
    returned,           \* what scrape_products returned, in a one-element sequence
    parse               \* a call of a function of parsers.py: arguments, locals, result

vars == <<zyte_api_key, use_local_html, files, query, n, pc, list_fetch,
          candidates, basic_products, tasks, completion, pacing, results,
          detailed_products, saved, returned, parse>>

\* the state of a run of scrape_products
run_vars == <<zyte_api_key, use_local_html, files, query, n, pc, list_fetch,
              candidates, basic_products, tasks, completion, pacing, results,
              detailed_products, saved, returned>>

(***************************************************************************)
(* Bounds of the model.                                                    *)
(***************************************************************************)
\* The n argument ranges over 0..MaxCount.
MaxCount == 3

(***************************************************************************)
(* Settings (src/config/settings.py) and literals of the code.             *)
(***************************************************************************)
zyte_max_retries == 3
retry_backoff_base == 2
retry_backoff_multiplier == 2
default_product_limit == 10
STATUS_BAN == 520
STATUS_OK == 200
\* elements[:10] of extract_search_results
SearchResultCap == 10
\* the {10} of asin_pattern
AsinLen == 10

amazon_base_url ==
    <<"h","t","t","p","s",":","/","/","w","w","w",".","a","m","a","z","o","n",".","c","o","m">>
amazon_search_path == <<"/","s","?","k","=">>
html_snapshots_dir == <<"h","t","m","l","_","s","n","a","p","s","h","o","t","s">>
DpPath == <<"/","d","p","/">>
Amp == <<"&">>
SearchFilePrefix == <<"/","s","e","a","r","c","h","_">>
ProductFilePrefix == <<"/","p","r","o","d","u","c","t","_">>
HtmlSuffix == <<".","h","t","m","l">>
\* the character class [A-Z0-9] of asin_pattern
AsinChars ==
    {"A","B","C","D","E","F","G","H","I","J","K","L","M","N","O","P","Q","R",
     "S","T","U","V","W","X","Y","Z","0","1","2","3","4","5","6","7","8","9"}

(***************************************************************************)
(* Python's str operations, on sequences of characters.                    *)
(***************************************************************************)
\* s[i:i+len(p)] == p, with i counted from 1
MatchesAt(s, p, i) ==
    /\ i >= 1
    /\ i + Len(p) - 1 <= Len(s)
    /\ \A k \in 1..Len(p) : s[i + k - 1] = p[k]

\* p in s
Contains(s, p) == \E i \in 1..Len(s) : MatchesAt(s, p, i)

\* s.find(p) + 1, used only where p in s
IndexOf(s, p) ==
    CHOOSE i \in 1..Len(s) :
        /\ MatchesAt(s, p, i)
        /\ \A j \in 1..(i - 1) : ~MatchesAt(s, p, j)

\* s.split(sep)[0]
SplitFirst(s, sep) ==
    IF Contains(s, sep) THEN SubSeq(s, 1, IndexOf(s, sep) - 1) ELSE s

\* s.split(sep)[1], used only where sep in s
SplitSecond(s, sep) ==
    LET rest == SubSeq(s, IndexOf(s, sep) + Len(sep), Len(s))
    IN  SplitFirst(rest, sep)

\* An Optional[str]: None is <<>>, a string s is <<s>>.
NoStr == <<>>
Some(s) == <<s>>

\* re.search(settings.asin_pattern, url): the positions where "/dp/" is
\* followed by ten characters of [A-Z0-9]
AsinMatchAt(url, i) ==
    /\ MatchesAt(url, DpPath, i)
    /\ i + Len(DpPath) + AsinLen - 1 <= Len(url)
    /\ \A k \in 0..(AsinLen - 1) : url[i + Len(DpPath) + k] \in AsinChars

\* asin_match.group(1) of the leftmost match, None when there is no match
asin_search(url) ==
    IF \E i \in 1..Len(url) : AsinMatchAt(url, i)
    THEN LET i == CHOOSE i \in 1..Len(url) :
                      /\ AsinMatchAt(url, i)
                      /\ \A j \in 1..(i - 1) : ~AsinMatchAt(url, j)
         IN  Some(SubSeq(url, i + Len(DpPath), i + Len(DpPath) + AsinLen - 1))
    ELSE NoStr

(***************************************************************************)
(* Page content.  None and the empty string are the two falsy values of    *)
(* an Optional[str]; a page is a parsed view of a non-empty document.      *)
(***************************************************************************)
NoneHtml == [kind |-> "None"]
EmptyHtml == [kind |-> "empty"]
\* what Path.read_text raises on (a file that exists and cannot be decoded)
Unreadable == [kind |-> "unreadable"]

\* Python's truth value of an Optional[str]
Truthy(html) == html.kind \notin {"None", "empty"}

\* A rendered page: its result containers (each the sequence of the href
\* attributes of its a.a-link-normal anchors, None for an anchor without
\* href), the value of its input[name="ASIN"] (None without one), and
\* whether parsing its detail fields raises (bs4 raises RecursionError on a
\* document nested too deeply).  What the selectors of the detail fields
\* find is empty here: the text of an element is None where there is no
\* element; price and rating have one entry for each selector of their
\* chain; bullets, breadcrumbs and the rows of the tables are the texts of
\* the elements found.
Page(containers, asin_input, parse_raises) ==
    [kind |-> "page", containers |-> containers, asin_input |-> asin_input,
     parse_raises |-> parse_raises,
     title |-> NoStr, price |-> <<NoStr, NoStr, NoStr, NoStr>>,
     rating |-> <<NoStr, NoStr>>, review_count |-> NoStr, bullets |-> <<>>,
     brand |-> NoStr, image_src |-> NoStr, breadcrumbs |-> <<>>, tables |-> <<>>]

(***************************************************************************)
(* The URLs, hrefs and pages the model draws its inputs from.              *)
(***************************************************************************)
QueryLamp == <<"l","a","m","p">>
AsinA == <<"B","0","0","0","0","0","0","0","0","1">>
AsinB == <<"B","0","0","0","0","0","0","0","0","2">>
AsinC == <<"B","0","0","0","0","0","0","0","0","3">>
\* relative hrefs, as the search page gives them
HrefA == DpPath \o AsinA
HrefB == <<"/","l","a","m","p">> \o DpPath \o AsinB \o <<"/","r","e","f","=","s","r">>
HrefC == DpPath \o AsinC
\* "/dp/" followed by fewer than ten characters of [A-Z0-9]
HrefShort == DpPath \o <<"B","0","0","s","h","o","r","t">>
\* an absolute href, outside the site
UrlOther ==
    <<"h","t","t","p","s",":","/","/","e","x","a","m","p","l","e",".","o","r","g","/","i","t","e","m">>

UrlSearch == amazon_base_url \o amazon_search_path \o QueryLamp
UrlSearchRef == UrlSearch \o <<"&","r","e","f","=","n","b">>
UrlA == amazon_base_url \o HrefA
UrlB == amazon_base_url \o HrefB
UrlC == amazon_base_url \o HrefC
UrlShort == amazon_base_url \o HrefShort
\* a code in lower case, a code of twelve characters, a short code before a
\* good one, a code in lower case before a good one
AsinLower == <<"b","0","0","0","0","0","0","0","0","9">>
UrlLower == amazon_base_url \o DpPath \o AsinLower
UrlLong == amazon_base_url \o DpPath \o AsinA \o <<"2","3">>
UrlShortThenA == amazon_base_url \o HrefShort \o HrefA
UrlLowerThenB == amazon_base_url \o DpPath \o AsinLower \o HrefB
\* a search URL whose query ends in the path of a detail page
UrlMixed == UrlSearch \o HrefA

\* a detail page without the ASIN input, one with it, one whose parse raises
DetailPlain == Page(<<>>, NoStr, FALSE)
DetailWithInput == Page(<<>>, Some(AsinC), FALSE)
DetailRaises == Page(<<>>, NoStr, TRUE)
DetailPages == {DetailPlain, DetailWithInput, DetailRaises}

\* search pages: three containers with a resolvable anchor each; containers
\* without anchor, without href and with an empty href among good ones; no
\* container at all; more containers than the extractor's cap; a document
\* on which the parser raises
SearchThree == Page(<<<<Some(HrefA)>>, <<Some(HrefB)>>, <<Some(HrefC)>>>>, NoStr, FALSE)
SearchGaps ==
    Page(<<<<>>, <<Some(HrefA)>>, <<NoStr, Some(HrefB)>>, <<Some(<<>>)>>,
           <<Some(UrlOther), Some(HrefC)>>>>, NoStr, FALSE)
SearchNone == Page(<<>>, NoStr, FALSE)
SearchMany ==
    Page([i \in 1..(SearchResultCap + 1) |->
             <<Some(IF i % 2 = 1 THEN HrefA ELSE HrefB)>>], NoStr, FALSE)
SearchRaises == Page(<<<<Some(HrefA)>>>>, NoStr, TRUE)
SearchPages == {SearchThree, SearchGaps, SearchNone, SearchMany, SearchRaises}

(***************************************************************************)
(* The snapshot directory.                                                 *)
(***************************************************************************)
SearchFile(q) == html_snapshots_dir \o SearchFilePrefix \o q \o HtmlSuffix
ProductFile(asin) == html_snapshots_dir \o ProductFilePrefix \o asin \o HtmlSuffix

NoFiles == [f \in {} |-> NoneHtml]

\* the snapshot directories of the model: the search snapshot missing,
\* empty, unreadable or good; each of two detail snapshots missing, empty,
\* unreadable or good
SearchSnapshots ==
    {NoFiles} \cup {SearchFile(QueryLamp) :> c : c \in {EmptyHtml, Unreadable, SearchThree}}
DetailSnapshots(asin) ==
    {NoFiles} \cup {ProductFile(asin) :> c : c \in {EmptyHtml, Unreadable, DetailPlain}}
Stores ==
    {s @@ a @@ b : s \in SearchSnapshots, a \in DetailSnapshots(AsinA),
                   b \in DetailSnapshots(AsinB)}

(***************************************************************************)
(* AmazonScraper: file names and local snapshots.                          *)
(***************************************************************************)
\* the search file name without the cut at "&"
_get_filename_from_url_uncut(url) ==
    IF Contains(url, amazon_search_path)
    THEN Some(SearchFile(SplitSecond(url, amazon_search_path)))
    ELSE IF Contains(url, DpPath) /\ asin_search(url) # NoStr
         THEN Some(ProductFile(asin_search(url)[1]))
         ELSE NoStr

\* _get_filename_from_url (fetcher.py 43-53)
_get_filename_from_url(url) ==
    IF Contains(url, amazon_search_path)
    THEN Some(SearchFile(SplitFirst(SplitSecond(url, amazon_search_path), Amp)))
    ELSE IF Contains(url, DpPath) /\ asin_search(url) # NoStr
         THEN Some(ProductFile(asin_search(url)[1]))
         ELSE NoStr

\* _load_local_html (fetcher.py 68-85): None for an underivable name, a
\* missing file or a read that raises; else the file's text
_load_local_html(url) ==
    LET filename == _get_filename_from_url(url)
    IN  IF filename = NoStr THEN NoneHtml
        ELSE IF filename[1] \notin DOMAIN files THEN NoneHtml
        ELSE IF files[filename[1]] = Unreadable THEN NoneHtml
        ELSE files[filename[1]]

(***************************************************************************)
(* Text, as parsers.py handles it.  A character is a one-character string; *)
(* "LRM" and "RLM" stand for the marks U+200E and U+200F.                  *)
(***************************************************************************)
\* the whitespace str.split() and str.strip() know, of the characters used
Whitespace == {" ", "\n", "\t"}

UpperLetters ==
    <<"A","B","C","D","E","F","G","H","I","J","K","L","M","N","O","P","Q","R",
      "S","T","U","V","W","X","Y","Z">>
LowerLetters ==
    <<"a","b","c","d","e","f","g","h","i","j","k","l","m","n","o","p","q","r",
      "s","t","u","v","w","x","y","z">>

\* the lower-case letter of each upper-case letter
LowerOf ==
    [c \in {UpperLetters[i] : i \in 1..26} |->
        LowerLetters[CHOOSE i \in 1..26 : UpperLetters[i] = c]]

lower_char(c) == IF c \in DOMAIN LowerOf THEN LowerOf[c] ELSE c

\* str.lower()
lower(s) == [i \in 1..Len(s) |-> lower_char(s[i])]

\* str.strip()
strip(s) ==
    LET keep == {i \in 1..Len(s) : s[i] \notin Whitespace}
    IN  IF keep = {} THEN <<>>
        ELSE SubSeq(s, CHOOSE i \in keep : \A j \in keep : i <= j,
                       CHOOSE i \in keep : \A j \in keep : j <= i)

RECURSIVE join_split(_, _)
\* " ".join(s.split()) from position i on: the words of s with one space
\* between two of them
join_split(s, i) ==
    IF i > Len(s) THEN <<>>
    ELSE IF s[i] \in Whitespace
    THEN (IF /\ i > 1
             /\ s[i - 1] \notin Whitespace
             /\ \E j \in (i + 1)..Len(s) : s[j] \notin Whitespace
          THEN <<" ">> ELSE <<>>) \o join_split(s, i + 1)
    ELSE <<s[i]>> \o join_split(s, i + 1)

\* _clean_text (parsers.py 13-17)
_clean_text(text) ==
    IF text = <<>> THEN NoStr
    ELSE LET unmarked == SelectSeq(text, LAMBDA c : c \notin {"LRM", "RLM"})
         IN  Some(strip(join_split(unmarked, 1)))

RECURSIVE split(_, _)
\* s.split(sep) for a one-character sep
split(s, sep) ==
    IF \E i \in 1..Len(s) : s[i] = sep
    THEN LET i == CHOOSE i \in 1..Len(s) :
                      s[i] = sep /\ \A j \in 1..(i - 1) : s[j] # sep
         IN  <<SubSeq(s, 1, i - 1)>> \o split(SubSeq(s, i + 1, Len(s)), sep)
    ELSE <<s>>

\* the number of leading characters of s, from position i on, that are in cs
RECURSIVE run_length(_, _, _)
run_length(s, i, cs) ==
    IF i <= Len(s) /\ s[i] \in cs THEN 1 + run_length(s, i + 1, cs) ELSE 0

\* re.sub(r"^(l1|l2|...)\s*[:\s]*", "", text, flags=re.IGNORECASE): the first
\* label of the list that starts the text, whatever its case, is cut off
\* with the whitespace and colons that follow it
sub_label(labels, text) ==
    LET hits == {k \in 1..Len(labels) : MatchesAt(lower(text), lower(labels[k]), 1)}
    IN  IF hits = {} THEN text
        ELSE LET k == CHOOSE k \in hits : \A j \in hits : k <= j
                 from == Len(labels[k]) + 1
                 skip == run_length(text, from, Whitespace \cup {":"})
             IN  SubSeq(text, from + skip, Len(text))

(***************************************************************************)
(* extract_dimensions_and_weight (parsers.py 81-126).                      *)
(***************************************************************************)
WordDimension == <<"d","i","m","e","n","s","i","o","n">>
WordSize == <<"s","i","z","e">>
WordWeight == <<"w","e","i","g","h","t">>

\* the labels of the two patterns (parsers.py 101, 119), in their order
DimensionLabels ==
    <<<<"P","r","o","d","u","c","t"," ","D","i","m","e","n","s","i","o","n","s">>,
      <<"I","t","e","m"," ","D","i","m","e","n","s","i","o","n","s">>,
      <<"D","i","m","e","n","s","i","o","n","s">>,
      <<"S","i","z","e">>,
      <<"I","t","e","m"," ","D","i","s","p","l","a","y"," ","D","i","m","e","n","s","i","o","n","s">>>>
WeightLabels ==
    <<<<"I","t","e","m"," ","W","e","i","g","h","t">>,
      <<"P","r","o","d","u","c","t"," ","W","e","i","g","h","t">>,
      <<"P","a","c","k","a","g","e"," ","W","e","i","g","h","t">>,
      <<"W","e","i","g","h","t">>>>

\* the unit tokens (parsers.py 112)
WeightUnits ==
    {<<"o","u","n","c","e">>, <<"p","o","u","n","d">>, <<"k","g">>, <<"g">>, <<"l","b">>, <<"o","z">>}

\* any(u in p.lower() for u in [...]) (parsers.py 110-113)
has_unit(p) == \E u \in WeightUnits : Contains(lower(p), u)

RECURSIVE embedded_weight(_, _)
\* the loop over parts[1:] (parsers.py 109-114): every part with a unit
\* token is assigned to weight, so the last of them stays
embedded_weight(parts, weight) ==
    IF parts = <<>> THEN weight
    ELSE embedded_weight(Tail(parts),
                         IF has_unit(Head(parts)) THEN Some(strip(Head(parts)))
                         ELSE weight)

\* the dimension value taken whole, without a look at semicolons
split_dimension_whole(val, weight) == [dims |-> Some(val), weight |-> weight]

\* the handling of a dimension value (parsers.py 106-115)
split_dimension(val, weight) ==
    IF \E i \in 1..Len(val) : val[i] = ";"
    THEN LET parts == split(val, ";")
         IN  [dims |-> Some(strip(Head(parts))),
              weight |-> embedded_weight(Tail(parts), weight)]
    ELSE [dims |-> Some(val), weight |-> weight]

\* a weight row that always assigns
weight_unset_unchecked(weight) == TRUE

\* not weight (parsers.py 117): None and the empty string are falsy
weight_unset(weight) == weight = NoStr \/ weight = Some(<<>>)

\* one iteration of the loop over the rows (parsers.py 91-124)
scan_row(raw, dims, weight) ==
    LET cleaned == _clean_text(raw)
    IN  IF cleaned = NoStr \/ cleaned = Some(<<>>)
        THEN [dims |-> dims, weight |-> weight]
        ELSE LET text == cleaned[1]
                 text_lower == lower(text)
                 a == IF Contains(text_lower, WordDimension) \/ Contains(text_lower, WordSize)
                      THEN split_dimension(sub_label(DimensionLabels, text), weight)
                      ELSE [dims |-> dims, weight |-> weight]
             IN  IF Contains(text_lower, WordWeight) /\ weight_unset(a.weight)
                 THEN [a EXCEPT !.weight = Some(sub_label(WeightLabels, text))]
                 ELSE a

(***************************************************************************)
(* The result-list extractor and the detail extractor (parsers.py).        *)
(***************************************************************************)
\* link and link.get("href") of one container: select_one gives the first
\* a.a-link-normal anchor, and the href must be present and non-empty
has_href(element) ==
    /\ Len(element) > 0
    /\ element[1] # NoStr
    /\ Len(element[1][1]) > 0

\* full_url (parsers.py 158)
full_url(href) == IF href[1] = "/" THEN amazon_base_url \o href ELSE href

RECURSIVE collect_products(_)
\* the loop of extract_search_results (parsers.py 153-159)
collect_products(elements) ==
    IF elements = <<>> THEN <<>>
    ELSE (IF has_href(Head(elements))
          THEN <<[url |-> full_url(Head(elements)[1][1])]>>
          ELSE <<>>) \o collect_products(Tail(elements))

\* extract_search_results(html) (parsers.py 149-161)
extract_search_results(html) ==
    LET elements == html.containers
        cut == IF Len(elements) < SearchResultCap THEN Len(elements) ELSE SearchResultCap
    IN  collect_products(SubSeq(elements, 1, cut))

\* the parameters extract_search_results declares (parsers.py 149)
extract_search_results_params == {"html"}

\* A call of extract_search_results with the keyword arguments kw: Python
\* raises TypeError for a keyword the function does not declare, and the
\* parser may raise on the document.
call_extract_search_results(html, kw) ==
    IF kw \subseteq extract_search_results_params /\ ~html.parse_raises
    THEN [raised |-> FALSE, value |-> extract_search_results(html)]
    ELSE [raised |-> TRUE, value |-> <<>>]

\* n or settings.default_product_limit
or_default(count) == IF count = 0 THEN default_product_limit ELSE count

\* get_top_products after its fetch (fetcher.py 172-180): the call
\* extract_search_results(html, n=n) and the except around it
get_top_products(html, count) ==
    IF ~Truthy(html) THEN <<>>
    ELSE LET r == call_extract_search_results(html, {"n"})
         IN  IF r.raised THEN <<>> ELSE r.value

NoProduct == [kind |-> "None"]

\* no parser function is called on its own
NoCall == [fn |-> "none"]

\* the form input first, the URL when there is no input
extract_asin_input_first(page, url) ==
    IF page.asin_input # NoStr THEN page.asin_input ELSE asin_search(url)

\* extract_asin (parsers.py 25-31)
extract_asin(page, url) ==
    IF asin_search(url) # NoStr THEN asin_search(url) ELSE page.asin_input

\* the text of one element cleaned, None without element: extract_title
\* (parsers.py 20-22) and extract_review_count (parsers.py 51-53)
clean_element(el) == IF el = NoStr THEN NoStr ELSE _clean_text(el[1])

extract_title(soup) == clean_element(soup.title)

extract_review_count(soup) == clean_element(soup.review_count)

RECURSIVE first_price(_)
\* the loop of extract_price (parsers.py 35-41) over what the selectors of
\* PRICE_SELECTORS find: the first element whose text is not empty
first_price(els) ==
    IF els = <<>> THEN NoStr
    ELSE IF Head(els) # NoStr /\ Head(els)[1] # <<>>
    THEN _clean_text(Head(els)[1])
    ELSE first_price(Tail(els))

\* extract_price (parsers.py 34-41)
extract_price(soup) == first_price(soup.price)

\* extract_rating (parsers.py 44-48): the second selector is tried only
\* when the first finds no element
extract_rating(soup) ==
    clean_element(IF soup.rating[1] # NoStr THEN soup.rating[1] ELSE soup.rating[2])

\* [_clean_text(b.get_text()) for b in els if b.get_text().strip()]:
\* extract_bullets (parsers.py 56-58), extract_breadcrumbs (parsers.py 76-78)
clean_texts(els) ==
    LET kept == SelectSeq(els, LAMBDA b : strip(b) # <<>>)
    IN  [i \in 1..Len(kept) |-> _clean_text(kept[i])[1]]

extract_bullets(soup) == clean_texts(soup.bullets)

extract_breadcrumbs(soup) == clean_texts(soup.breadcrumbs)

\* extract_image (parsers.py 71-73)
extract_image(soup) == soup.image_src

RECURSIVE remove_all(_, _)
\* s.replace(p, "")
remove_all(s, p) ==
    IF Contains(s, p)
    THEN SubSeq(s, 1, IndexOf(s, p) - 1)
         \o remove_all(SubSeq(s, IndexOf(s, p) + Len(p), Len(s)), p)
    ELSE s

BrandLabel == <<"B","r","a","n","d",":">>
VisitThe == <<"V","i","s","i","t"," ","t","h","e"," ">>
SpaceStore == <<" ","S","t","o","r","e">>

\* re.sub(r"^Brand:\s*", "", text, flags=re.IGNORECASE)
sub_brand_label(text) ==
    IF MatchesAt(lower(text), lower(BrandLabel), 1)
    THEN SubSeq(text, Len(BrandLabel) + 1 + run_length(text, Len(BrandLabel) + 1, Whitespace),
                Len(text))
    ELSE text

\* extract_brand raises: _clean_text gives None for an element without
\* text, and re.sub raises TypeError on None (parsers.py 64-65)
extract_brand_raises(soup) == soup.brand # NoStr /\ _clean_text(soup.brand[1]) = NoStr

\* extract_brand (parsers.py 61-68), where it does not raise
extract_brand(soup) ==
    IF soup.brand = NoStr THEN NoStr
    ELSE Some(strip(remove_all(remove_all(sub_brand_label(_clean_text(soup.brand[1])[1]),
                                          VisitThe), SpaceStore)))

RECURSIVE table_rows(_)
\* the rows in the order of the two loops (parsers.py 88-91)
table_rows(tables) ==
    IF tables = <<>> THEN <<>> ELSE Head(tables) \o table_rows(Tail(tables))

RECURSIVE scan_rows(_, _, _)
scan_rows(rows, dims, weight) ==
    IF rows = <<>> THEN [dims |-> dims, weight |-> weight]
    ELSE LET v == scan_row(Head(rows), dims, weight)
         IN  scan_rows(Tail(rows), v.dims, v.weight)

\* extract_dimensions_and_weight (parsers.py 81-126)
extract_dimensions_and_weight(soup) == scan_rows(table_rows(soup.tables), NoStr, NoStr)

\* extract_product_details raises: BeautifulSoup or a field extractor raises
extract_product_details_raises(html) == html.parse_raises \/ extract_brand_raises(html)

\* extract_product_details (parsers.py 129-146), where it does not raise
extract_product_details(html, url) ==
    LET dims_weight == extract_dimensions_and_weight(html)
    IN  [kind |-> "Product",
         url |-> url,
         title |-> extract_title(html),
         asin |-> extract_asin(html, url),
         price |-> extract_price(html),
         rating |-> extract_rating(html),
         review_count |-> extract_review_count(html),
         bullet_features |-> extract_bullets(html),
         brand |-> extract_brand(html),
         image_url |-> extract_image(html),
         breadcrumbs |-> extract_breadcrumbs(html),
         dimensions |-> dims_weight.dims,
         weight |-> dims_weight.weight]

\* a detail operation that gives up a record without title
get_product_details_titled(url, html) ==
    IF ~Truthy(html) THEN NoProduct
    ELSE IF extract_product_details_raises(html) THEN NoProduct
    ELSE IF extract_product_details(html, url).title = NoStr THEN NoProduct
    ELSE extract_product_details(html, url)

\* get_product_details after its fetch (fetcher.py 184-197)
get_product_details(url, html) ==
    IF ~Truthy(html) THEN NoProduct
    ELSE IF extract_product_details_raises(html) THEN NoProduct
    ELSE extract_product_details(html, url)

(***************************************************************************)
(* The page fetcher: one _fetch_page_html call chain (fetcher.py 87-167).  *)
(* st is where the coroutine is: "idle" before the call, "awaiting" in     *)
(* client.post, "sleeping" in the backoff sleep, "returned" after the      *)
(* outermost call returned html.  nreq counts the posts, slept lists the   *)
(* backoff sleeps and resp is the response received last.                  *)
(***************************************************************************)
NoResp == [exc |-> FALSE, status |-> 0, browserHtml |-> NoneHtml]

NewFetch(url) ==
    [url |-> url, st |-> "idle", retry_count |-> 0, html |-> NoneHtml,
     resp |-> NoResp, nreq |-> 0, slept |-> <<>>]

\* what the rendering service may answer, or the transport raise (exc)
Responses(pages) ==
    {[exc |-> TRUE, status |-> 0, browserHtml |-> NoneHtml]}
    \cup {[exc |-> FALSE, status |-> s, browserHtml |-> NoneHtml] : s \in {STATUS_BAN, 503, 404}}
    \cup {[exc |-> FALSE, status |-> STATUS_OK, browserHtml |-> h] :
             h \in {NoneHtml, EmptyHtml} \cup pages}

\* the pages the service renders for a URL
PagesFor(url) == IF Contains(url, amazon_search_path) THEN SearchPages ELSE DetailPages

\* a wait that grows linearly with the retry count
wait_time_linear(retry_count) ==
    retry_backoff_base * retry_count * retry_backoff_multiplier

\* wait_time (fetcher.py 131-134)
wait_time(retry_count) == retry_backoff_base ^ retry_count * retry_backoff_multiplier

\* one retry more than max_retries
may_retry_inclusive(retry_count) == retry_count <= zyte_max_retries

\* retry_count < max_retries (fetcher.py 130); max_retries is
\* settings.zyte_max_retries in every call of this program
may_retry(retry_count) == retry_count < zyte_max_retries

\* every server error retried
is_ban_any_5xx(status) == status >= 500

\* the statuses that are retried (fetcher.py 129)
is_ban(status) == status = STATUS_BAN

\* a fetcher that does not use what it loaded
local_hit_never(html) == FALSE

\* html is truthy (fetcher.py 94)
local_hit(html) == Truthy(html)

\* a fetch that never leaves local mode: a failed load fails the fetch
enter_fetch_local_only(f, retry_count) ==
    LET html == IF use_local_html THEN _load_local_html(f.url) ELSE NoneHtml
    IN  IF use_local_html
        THEN [f EXCEPT !.st = "returned", !.retry_count = retry_count,
                       !.html = IF local_hit(html) THEN html ELSE NoneHtml]
        ELSE [f EXCEPT !.st = "awaiting", !.retry_count = retry_count,
                       !.nreq = f.nreq + 1]

\* _fetch_page_html(url, retry_count) up to its first await or its return
\* (fetcher.py 90-127): the local snapshot if there is one, else the post
enter_fetch(f, retry_count) ==
    LET html == IF use_local_html THEN _load_local_html(f.url) ELSE NoneHtml
    IN  IF use_local_html /\ local_hit(html)
        THEN [f EXCEPT !.st = "returned", !.retry_count = retry_count, !.html = html]
        ELSE [f EXCEPT !.st = "awaiting", !.retry_count = retry_count,
                       !.nreq = f.nreq + 1]

\* the response handling without the check of the content (fetcher.py 158)
on_response_unchecked(f, r) ==
    LET g == [f EXCEPT !.resp = r]
        fail == [g EXCEPT !.st = "returned", !.html = NoneHtml]
    IN  IF r.exc THEN fail
        ELSE IF is_ban(r.status)
        THEN IF may_retry(f.retry_count)
             THEN [g EXCEPT !.st = "sleeping",
                            !.slept = Append(f.slept, wait_time(f.retry_count))]
             ELSE fail
        ELSE IF r.status # STATUS_OK THEN fail
        ELSE [g EXCEPT !.st = "returned", !.html = r.browserHtml]

\* _fetch_page_html from the response to the sleep or the return
\* (fetcher.py 129-167)
on_response(f, r) ==
    LET g == [f EXCEPT !.resp = r]
        fail == [g EXCEPT !.st = "returned", !.html = NoneHtml]
    IN  IF r.exc THEN fail
        ELSE IF is_ban(r.status)
        THEN IF may_retry(f.retry_count)
             THEN [g EXCEPT !.st = "sleeping",
                            !.slept = Append(f.slept, wait_time(f.retry_count))]
             ELSE fail
        ELSE IF r.status # STATUS_OK THEN fail
        ELSE IF ~Truthy(r.browserHtml) THEN fail
        ELSE [g EXCEPT !.st = "returned", !.html = r.browserHtml]

\* the recursive call after the sleep (fetcher.py 140-142)
after_sleep(f) == enter_fetch(f, f.retry_count + 1)

(***************************************************************************)
(* The coroutines.  Fetch 0 is the list fetch of the main coroutine, fetch *)
(* i >= 1 the detail fetch of tasks[i].                                    *)
(***************************************************************************)
NewTask(url) == [fetch |-> NewFetch(url), product |-> NoProduct]

F(i) == IF i = 0 THEN list_fetch ELSE tasks[i].fetch

\* a task's coroutine with its fetch in state f: get_product_details
\* (fetcher.py 182-197) finishes in the same step in which its fetch
\* returns, with the record, or None, that it makes of the html
task_with(t, f) ==
    IF f.st = "returned"
    THEN [fetch |-> f, product |-> get_product_details(f.url, f.html)]
    ELSE [t EXCEPT !.fetch = f]

\* fetch i goes on to f (g is the value of f)
SetFetch(i, f) ==
    \E g \in {f} :
        IF i = 0
        THEN /\ list_fetch' = g
             /\ tasks' = tasks
             /\ completion' = completion
        ELSE /\ tasks' = [tasks EXCEPT ![i] = task_with(tasks[i], g)]
             /\ completion' = IF g.st = "returned" THEN Append(completion, i)
                               ELSE completion
             /\ list_fetch' = list_fetch

\* the main coroutine is suspended in the pacing sleep or in gather, the
\* only places where a task runs
MainSuspended == pc \in {"pacing", "gather"}

\* fetch i may run: the main coroutine is inside get_top_products (or a
\* bare _fetch_page_html call), or task i exists and the main coroutine is
\* suspended
Runnable(i) ==
    IF i = 0 THEN pc \in {"get_top_products", "_fetch_page_html"}
    ELSE i \in 1..Len(tasks) /\ MainSuspended

FetchIds == 0..Len(tasks)

\* the coroutine starts its fetch
FetchCall(i) ==
    /\ Runnable(i)
    /\ F(i).st = "idle"
    /\ SetFetch(i, enter_fetch(F(i), 0))
    /\ UNCHANGED <<parse, zyte_api_key, use_local_html, files, query, n, pc, candidates,
                   basic_products, pacing, results, detailed_products, saved,
                   returned>>

\* client.post returns a response or raises, and the coroutine handles it
FetchResponse(i) ==
    /\ Runnable(i)
    /\ F(i).st = "awaiting"
    /\ \E r \in Responses(PagesFor(F(i).url)) : SetFetch(i, on_response(F(i), r))
    /\ UNCHANGED <<parse, zyte_api_key, use_local_html, files, query, n, pc, candidates,
                   basic_products, pacing, results, detailed_products, saved,
                   returned>>

\* the backoff sleep is over and the coroutine calls itself
BackoffElapsed(i) ==
    /\ Runnable(i)
    /\ F(i).st = "sleeping"
    /\ SetFetch(i, after_sleep(F(i)))
    /\ UNCHANGED <<parse, zyte_api_key, use_local_html, files, query, n, pc, candidates,
                   basic_products, pacing, results, detailed_products, saved,
                   returned>>

(***************************************************************************)
(* One call of _fetch_page_html(url), for any URL: SpecFetch.              *)
(***************************************************************************)
ApiKey == <<"k","e","y">>
FetchUrls ==
    {UrlSearch, UrlSearchRef, UrlA, UrlB, UrlShort, UrlOther, UrlLong,
     UrlShortThenA, UrlLowerThenB, UrlMixed}

InitFetch ==
    /\ zyte_api_key = ApiKey
    /\ use_local_html \in BOOLEAN
    /\ files \in Stores
    /\ query = QueryLamp
    /\ n = 0
    /\ pc = "_fetch_page_html"
    /\ list_fetch \in {NewFetch(u) : u \in FetchUrls}
    /\ candidates = <<>>
    /\ basic_products = <<>>
    /\ tasks = <<>>
    /\ completion = <<>>
    /\ pacing = 0
    /\ results = <<>>
    /\ detailed_products = <<>>
    /\ saved = <<>>
    /\ returned = <<>>
    /\ parse = NoCall

NextFetch == FetchCall(0) \/ FetchResponse(0) \/ BackoffElapsed(0)

SpecFetch == InitFetch /\ [][NextFetch]_vars

(***************************************************************************)
(* Properties of the page fetcher, checked under SpecFetch.                *)
(***************************************************************************)
\* the waits before retries 1..k: base^0 * multiplier, base^1 * multiplier, ...
ExpectedWaits(k) ==
    [j \in 1..k |-> retry_backoff_base ^ (j - 1) * retry_backoff_multiplier]

\* the snapshot file of each URL of the model: the search snapshot of the
\* query, or the detail snapshot of the first ten-character upper-case code
\* that follows a "/dp/"; for a URL with "/s?k=" the search snapshot of all
\* that follows it up to "&", a "/dp/" path included (UrlMixed); None where
\* the URL names none (UrlShort, UrlLower, UrlOther, the empty URL)
SnapshotName(url) ==
    IF url \in {UrlSearch, UrlSearchRef}
    THEN Some(<<"h","t","m","l","_","s","n","a","p","s","h","o","t","s","/","s","e","a","r","c","h","_","l","a","m","p",".","h","t","m","l">>)
    ELSE IF url = UrlMixed
    THEN Some(<<"h","t","m","l","_","s","n","a","p","s","h","o","t","s","/","s","e","a","r","c","h","_","l","a","m","p","/","d","p","/","B","0","0","0","0","0","0","0","0","1",".","h","t","m","l">>)
    ELSE IF url \in {UrlA, UrlLong, UrlShortThenA}
    THEN Some(<<"h","t","m","l","_","s","n","a","p","s","h","o","t","s","/","p","r","o","d","u","c","t","_","B","0","0","0","0","0","0","0","0","1",".","h","t","m","l">>)
    ELSE IF url = UrlC
    THEN Some(<<"h","t","m","l","_","s","n","a","p","s","h","o","t","s","/","p","r","o","d","u","c","t","_","B","0","0","0","0","0","0","0","0","3",".","h","t","m","l">>)
    ELSE IF url \in {UrlB, UrlLowerThenB}
    THEN Some(<<"h","t","m","l","_","s","n","a","p","s","h","o","t","s","/","p","r","o","d","u","c","t","_","B","0","0","0","0","0","0","0","0","2",".","h","t","m","l">>)
    ELSE NoStr

\* what a remote fetch makes of its last response
RemoteOutcome(r) ==
    IF ~r.exc /\ r.status = STATUS_OK /\ Truthy(r.browserHtml)
    THEN r.browserHtml
    ELSE NoneHtml

\* this call chain posted once per call and slept once per retry so far
NoExtraAttempt(f) == f.nreq = f.retry_count + 1 /\ Len(f.slept) = f.retry_count

\* C1: a fetch that is answered 520 every time posts max_retries + 1 times,
\* sleeps base^k * multiplier before retry k + 1 and then fails; once it
\* has returned it posts nothing more.
C1_BanRetriedThenFails ==
    /\ [](LET f == list_fetch
          IN  /\ f.st = "awaiting" =>
                    /\ f.retry_count <= zyte_max_retries
                    /\ f.nreq = f.retry_count + 1
                    /\ f.slept = ExpectedWaits(f.retry_count)
              /\ f.st = "sleeping" =>
                    /\ f.retry_count < zyte_max_retries
                    /\ f.nreq = f.retry_count + 1
                    /\ f.slept = ExpectedWaits(f.retry_count + 1)
              /\ (f.st = "returned" /\ ~f.resp.exc /\ f.resp.status = STATUS_BAN) =>
                    /\ f.nreq = zyte_max_retries + 1
                    /\ f.slept = ExpectedWaits(zyte_max_retries)
                    /\ f.html = NoneHtml)
    /\ [][list_fetch.st = "returned" => list_fetch' = list_fetch]_vars

\* a fetch has failed after max_retries + 1 posts, all answered 520
C1_Witness ==
    /\ list_fetch.st = "returned"
    /\ list_fetch.resp.status = STATUS_BAN
    /\ list_fetch.nreq = zyte_max_retries + 1
    /\ Len(list_fetch.slept) = zyte_max_retries

\* C2: only status 520 is retried: after a response with another status
\* than 200 and 520, or a transport exception, at any retry count, the fetch
\* has failed without a sleep and without another post.
C2_OnlyBanRetried ==
    LET f == list_fetch
        r == f.resp
        other == r.exc \/ (r # NoResp /\ r.status \notin {STATUS_OK, STATUS_BAN})
    IN  /\ other => f.st = "returned" /\ f.html = NoneHtml /\ NoExtraAttempt(f)
        /\ f.st = "sleeping" => ~r.exc /\ r.status = STATUS_BAN
        /\ (f.st = "awaiting" /\ f.retry_count > 0) => ~r.exc /\ r.status = STATUS_BAN

\* a fetch has failed on a 503 that answered its second retry
C2_Witness ==
    /\ list_fetch.st = "returned"
    /\ list_fetch.resp.status = 503
    /\ list_fetch.retry_count = 2
    /\ list_fetch.nreq = 3

\* C3: a 200 response without rendered content, or with empty content,
\* fails the fetch without a retry; a fetch returns content only from a 200
\* response with non-empty content or from a local snapshot.
C3_EmptyContentFails ==
    LET f == list_fetch
        r == f.resp
    IN  /\ (~r.exc /\ r.status = STATUS_OK /\ r.browserHtml \in {NoneHtml, EmptyHtml}) =>
               f.st = "returned" /\ f.html = NoneHtml /\ NoExtraAttempt(f)
        /\ (f.st = "returned" /\ f.html # NoneHtml) =>
               /\ f.html.kind = "page"
               /\ \/ ~r.exc /\ r.status = STATUS_OK /\ f.html = r.browserHtml
                  \/ /\ use_local_html
                     /\ f.nreq = 0
                     /\ SnapshotName(f.url) # NoStr
                     /\ SnapshotName(f.url)[1] \in DOMAIN files
                     /\ f.html = files[SnapshotName(f.url)[1]]

\* a fetch has failed on a 200 response with empty content
C3_Witness ==
    /\ list_fetch.st = "returned"
    /\ list_fetch.resp.status = STATUS_OK
    /\ list_fetch.resp.browserHtml = EmptyHtml
    /\ list_fetch.html = NoneHtml

\* the fetch, once called, has returned content from the snapshot without
\* a post
ServedLocally(f, content) ==
    f.st # "idle" => f.st = "returned" /\ f.html = content /\ f.nreq = 0 /\ f.slept = <<>>

\* C4 as stated: in local mode, a snapshot file that can be loaded (it
\* exists and can be read) is returned at once, without a post.
C4_LoadableSnapshotServed ==
    LET f == list_fetch
        name == SnapshotName(f.url)
    IN  (/\ use_local_html
         /\ name # NoStr
         /\ name[1] \in DOMAIN files
         /\ files[name[1]] # Unreadable) => ServedLocally(f, files[name[1]])

\* C4, amended: in local mode, a snapshot file that can be loaded and is
\* not empty is returned at once, without a post.
C4_NonEmptySnapshotServed ==
    LET f == list_fetch
        name == SnapshotName(f.url)
    IN  (/\ use_local_html
         /\ name # NoStr
         /\ name[1] \in DOMAIN files
         /\ files[name[1]].kind = "page") => ServedLocally(f, files[name[1]])

\* the fetch of a search URL with a parameter after the query has returned
\* the search snapshot without a post
C4_Witness ==
    /\ use_local_html
    /\ list_fetch.url = UrlSearchRef
    /\ list_fetch.st = "returned"
    /\ list_fetch.html = SearchThree
    /\ list_fetch.nreq = 0

\* the snapshot of the URL cannot be loaded: no name, no file, or a file
\* that cannot be read
LoadFails(url) ==
    \/ SnapshotName(url) = NoStr
    \/ SnapshotName(url)[1] \notin DOMAIN files
    \/ files[SnapshotName(url)[1]] = Unreadable

\* C5: in local mode, a snapshot that cannot be loaded does not fail the
\* fetch: the fetch goes on to the rendering service and returns what the
\* remote fetch returns.
C5_LoadFailureFallsThrough ==
    LET f == list_fetch
    IN  (use_local_html /\ LoadFails(f.url)) =>
            /\ f.st # "idle" => f.nreq >= 1
            /\ f.st = "returned" => f.html = RemoteOutcome(f.resp)

\* in local mode, a fetch without snapshot file has returned a rendered page
C5_Witness ==
    /\ use_local_html
    /\ list_fetch.url = UrlA
    /\ SnapshotName(UrlA)[1] \notin DOMAIN files
    /\ list_fetch.st = "returned"
    /\ list_fetch.html \in DetailPages


(***************************************************************************)
(* The orchestrator: scrape_products (fetcher.py 200-250).                 *)
(***************************************************************************)
\* the search URL (fetcher.py 204)
search_url(q) == amazon_base_url \o amazon_search_path \o q

\* a constructor that accepts any key
missing_key_unchecked(key) == FALSE

\* a constructor that accepts no key
missing_key_always(key) == TRUE

\* AmazonScraper.__init__ raises ValueError (fetcher.py 20-21)
missing_key(key) == key = <<>>

\* scrape_products up to the call of get_top_products (fetcher.py 203-211)
Construct ==
    /\ pc = "start"
    /\ n' = or_default(n)
    /\ IF missing_key(zyte_api_key)
       THEN /\ pc' = "raised"
            /\ list_fetch' = list_fetch
       ELSE /\ pc' = "get_top_products"
            /\ list_fetch' = NewFetch(search_url(query))
    /\ UNCHANGED <<parse, zyte_api_key, use_local_html, files, query, candidates,
                   basic_products, tasks, completion, pacing, results,
                   detailed_products, saved, returned>>

\* get_top_products goes on without waiting for its fetch
GetTopProducts_unawaited ==
    /\ pc = "get_top_products"
    /\ candidates' = get_top_products(list_fetch.html, or_default(n))
    /\ pc' = "filter"
    /\ UNCHANGED <<parse, zyte_api_key, use_local_html, files, query, n, list_fetch,
                   basic_products, tasks, completion, pacing, results,
                   detailed_products, saved, returned>>

\* get_top_products returns (fetcher.py 172-180)
GetTopProducts ==
    /\ pc = "get_top_products"
    /\ list_fetch.st = "returned"
    /\ candidates' = get_top_products(list_fetch.html, or_default(n))
    /\ pc' = "filter"
    /\ UNCHANGED <<parse, zyte_api_key, use_local_html, files, query, n, list_fetch,
                   basic_products, tasks, completion, pacing, results,
                   detailed_products, saved, returned>>

\* the condition of the snapshot filter (fetcher.py 216-221)
has_snapshot(p) ==
    /\ asin_search(p.url) # NoStr
    /\ ProductFile(asin_search(p.url)[1]) \in DOMAIN files

RECURSIVE filter_snapshots(_)
\* the loop of the snapshot filter (fetcher.py 214-222)
filter_snapshots(products) ==
    IF products = <<>> THEN <<>>
    ELSE (IF has_snapshot(Head(products)) THEN <<Head(products)>> ELSE <<>>)
         \o filter_snapshots(Tail(products))

\* basic_products after the filter (fetcher.py 212-224)
filtered_products(products) ==
    IF use_local_html /\ products # <<>> THEN filter_snapshots(products) ELSE products

FilterCandidates ==
    /\ pc = "filter"
    /\ basic_products' = filtered_products(candidates)
    /\ pc' = "launch"
    /\ UNCHANGED <<parse, zyte_api_key, use_local_html, files, query, n, list_fetch,
                   candidates, tasks, completion, pacing, results,
                   detailed_products, saved, returned>>

\* idx < len(basic_products) (fetcher.py 236): a pacing sleep follows the
\* launch of task idx
sleeps_after(idx) == idx < Len(basic_products)

\* one iteration of the launch loop (fetcher.py 232-237): create the next
\* task, then sleep, or go on to gather after the last one
launch_next ==
    LET idx == Len(tasks) + 1
    IN  /\ tasks' = Append(tasks, NewTask(basic_products[idx].url))
        /\ IF sleeps_after(idx)
           THEN /\ pacing' = pacing + 1
                /\ pc' = "pacing"
           ELSE /\ pacing' = pacing
                /\ pc' = "gather"

\* the launch loop (fetcher.py 231-237) from its start, or from the end of
\* a pacing sleep, to its next sleep or to gather
Launch ==
    /\ pc \in {"launch", "pacing"}
    /\ IF Len(tasks) = Len(basic_products)
       THEN /\ pc' = "gather"
            /\ UNCHANGED <<tasks, pacing>>
       ELSE launch_next
    /\ UNCHANGED <<parse, zyte_api_key, use_local_html, files, query, n, list_fetch,
                   candidates, basic_products, completion, results,
                   detailed_products, saved, returned>>

\* a task is done when its get_product_details has returned
task_done(t) == t.fetch.st = "returned"

\* [p for p in results if p is not None] (fetcher.py 240)
not_none(rs) == SelectSeq(rs, LAMBDA p : p # NoProduct)

\* asyncio.gather(*tasks) returns when every task is done
gather_ready == \A i \in 1..Len(tasks) : task_done(tasks[i])

\* and returns the results in the order of its arguments
gather_results == [i \in 1..Len(tasks) |-> tasks[i].product]

\* asyncio.gather returns (fetcher.py 239-240)
Gather ==
    /\ pc = "gather"
    /\ gather_ready
    /\ results' = gather_results
    /\ detailed_products' = not_none(results')
    /\ pc' = "save"
    /\ UNCHANGED <<parse, zyte_api_key, use_local_html, files, query, n, list_fetch,
                   candidates, basic_products, tasks, completion, pacing, saved,
                   returned>>

\* the Optional[str] fields of Product that an extractor may leave None
\* (schemas.py 28-39)
TextFields ==
    {"asin", "title", "brand", "price", "rating", "review_count", "dimensions",
     "weight", "image_url"}

\* p.model_dump(exclude_none=True): url and the two lists are never None
model_dump(p) ==
    LET present == {f \in TextFields : p[f] # NoStr}
    IN  [f \in present \cup {"url", "bullet_features", "breadcrumbs"} |->
            IF f \in TextFields THEN p[f][1] ELSE p[f]]

\* the records go to the sink and scrape_products returns (fetcher.py 242-250)
Save ==
    /\ pc = "save"
    /\ LET products_dicts == [i \in 1..Len(detailed_products) |->
                                 model_dump(detailed_products[i])]
       IN  saved' = saved \o <<[sink |-> "save_to_jsonl", products |-> products_dicts],
                               [sink |-> "save_to_csv", products |-> products_dicts]>>
    /\ returned' = <<detailed_products>>
    /\ pc' = "done"
    /\ UNCHANGED <<parse, zyte_api_key, use_local_html, files, query, n, list_fetch,
                   candidates, basic_products, tasks, completion, pacing, results,
                   detailed_products>>

(***************************************************************************)
(* Spec: one run of scrape_products(query, n, use_local_html).             *)
(***************************************************************************)
Init ==
    /\ zyte_api_key \in {<<>>, ApiKey}
    /\ use_local_html \in BOOLEAN
    /\ files \in Stores
    /\ query = QueryLamp
    /\ n \in 0..MaxCount
    /\ pc = "start"
    /\ list_fetch = NewFetch(<<>>)
    /\ candidates = <<>>
    /\ basic_products = <<>>
    /\ tasks = <<>>
    /\ completion = <<>>
    /\ pacing = 0
    /\ results = <<>>
    /\ detailed_products = <<>>
    /\ saved = <<>>
    /\ returned = <<>>
    /\ parse = NoCall

Next ==
    \/ Construct
    \/ \E i \in FetchIds : FetchCall(i)
    \/ \E i \in FetchIds : FetchResponse(i)
    \/ \E i \in FetchIds : BackoffElapsed(i)
    \/ GetTopProducts
    \/ FilterCandidates
    \/ Launch
    \/ Gather
    \/ Save

Spec == Init /\ [][Next]_vars

(***************************************************************************)
(* SpecLive: runs in which a step is taken whenever one can be taken: the  *)
(* event loop runs a coroutine that is ready, a post                       *)
(* gets its response or its timeout (the client has one, fetcher.py 33),   *)
(* and a sleep ends.                                                       *)
(***************************************************************************)
\* the runs that have a credential; a run reads the search snapshot only
InitLive == Init /\ zyte_api_key = ApiKey /\ files \in SearchSnapshots

SpecLive == InitLive /\ [][Next]_vars /\ WF_vars(Next)

(***************************************************************************)
(* Properties of the whole run, checked under Spec.                        *)
(***************************************************************************)
\* the main coroutine is past get_top_products
Extracted == pc \in {"filter", "launch", "pacing", "gather", "save", "done"}

\* C6: a remote run with count 3 on a search page of three containers with
\* a resolvable anchor each gets the three URLs in document order and
\* schedules three detail operations; if only the second fails, the
\* records of the first and the third are returned, in that order.
C6_EndToEnd ==
    (/\ Extracted
     /\ ~use_local_html
     /\ n = 3
     /\ list_fetch.html = SearchThree) =>
        /\ candidates = <<[url |-> UrlA], [url |-> UrlB], [url |-> UrlC]>>
        /\ pc \in {"gather", "save", "done"} => Len(tasks) = 3
        /\ (/\ pc = "done"
            /\ Len(tasks) = 3
            /\ tasks[1].product # NoProduct
            /\ tasks[2].product = NoProduct
            /\ tasks[3].product # NoProduct) =>
               returned = <<<<tasks[1].product, tasks[3].product>>>>

\* the href of a container's first anchor, resolved against the site origin
ResolvedHref(element) ==
    IF Head(element[1][1]) = "/" THEN amazon_base_url \o element[1][1] ELSE element[1][1]

RECURSIVE ExpectedList(_, _)
\* of the first limit containers, the resolved hrefs of those whose first
\* anchor has a non-empty href, in document order
ExpectedList(containers, limit) ==
    IF containers = <<>> \/ limit = 0 THEN <<>>
    ELSE (IF /\ Len(Head(containers)) > 0
             /\ Head(containers)[1] # NoStr
             /\ Head(containers)[1][1] # <<>>
          THEN <<[url |-> ResolvedHref(Head(containers))]>>
          ELSE <<>>) \o ExpectedList(Tail(containers), limit - 1)

\* C7: the candidates extracted from a fetched search page are the resolved
\* hrefs of its first limit containers, without the containers that have no
\* href, in document order, and never more than limit.
C7_ExtractList ==
    (Extracted /\ list_fetch.html.kind = "page") =>
        /\ candidates = ExpectedList(list_fetch.html.containers, n)
        /\ Len(candidates) <= n

\* C11: without the credential the constructor raises and the run ends
\* there, in local and in remote mode: no fetch is entered (so no snapshot
\* is read and nothing is posted), no candidate is extracted, no task is
\* created, the sink is not called and nothing is returned.
C11_MissingKeyAborts ==
    zyte_api_key = <<>> =>
        /\ pc \in {"start", "raised"}
        /\ list_fetch.st = "idle"
        /\ list_fetch.nreq = 0
        /\ candidates = <<>>
        /\ basic_products = <<>>
        /\ tasks = <<>>
        /\ pacing = 0
        /\ saved = <<>>
        /\ returned = <<>>

\* the constructor has raised in local mode, with a good search snapshot in
\* the snapshot directory
C11_Witness ==
    /\ pc = "raised"
    /\ zyte_api_key = <<>>
    /\ use_local_html
    /\ SearchFile(QueryLamp) \in DOMAIN files
    /\ files[SearchFile(QueryLamp)] = SearchThree

(***************************************************************************)
(* Properties of the whole run with a credential, checked under Spec.      *)
(***************************************************************************)
RECURSIVE RecordsOf(_)
\* the records of the tasks 1..k that succeeded, in the order of the tasks
RecordsOf(k) ==
    IF k = 0 THEN <<>>
    ELSE RecordsOf(k - 1) \o (IF tasks[k].product # NoProduct
                               THEN <<tasks[k].product>> ELSE <<>>)

\* C12: with a credential the run never ends in a raise; when the list
\* fetch returned nothing, or the extraction of the list raised, there are
\* no candidates; without candidates the run returns the empty sequence;
\* and a run that is done has called the sink and returned the records of
\* the detail operations that succeeded, never more than were scheduled.
C12_NeverRaises ==
    zyte_api_key # <<>> =>
        /\ pc # "raised"
        /\ (Extracted /\ ~Truthy(list_fetch.html)) => candidates = <<>>
        /\ (/\ Extracted
            /\ Truthy(list_fetch.html)
            /\ call_extract_search_results(list_fetch.html, {"n"}).raised) =>
               candidates = <<>>
        /\ (Extracted /\ pc # "filter" /\ candidates = <<>>) =>
               basic_products = <<>> /\ tasks = <<>>
        /\ pc \in {"save", "done"} => detailed_products = RecordsOf(Len(tasks))
        /\ pc = "done" =>
               /\ Len(tasks) = Len(basic_products)
               /\ Len(basic_products) <= Len(candidates)
               /\ returned = <<RecordsOf(Len(tasks))>>
               /\ Len(returned[1]) <= Len(tasks)
               /\ Len(saved) = 2

\* a remote run fetched a list page, the extraction of the list raised, and
\* the run called the sink and returned the empty sequence
C12_Witness ==
    /\ pc = "done"
    /\ zyte_api_key # <<>>
    /\ ~use_local_html
    /\ list_fetch.html = SearchThree
    /\ call_extract_search_results(list_fetch.html, {"n"}).raised
    /\ candidates = <<>>
    /\ Len(saved) = 2
    /\ returned = <<<<>>>>

\* C18: no task exists, and so no detail fetch is under way, before the
\* list fetch has returned and get_top_products has given the candidates;
\* the list fetch is one call of _fetch_page_html for the search URL, which
\* is never entered again once it has returned.
C18_ListFetchFirst ==
    /\ []((zyte_api_key # <<>>) =>
              /\ Extracted => list_fetch.st = "returned"
              /\ tasks # <<>> => Extracted /\ pc # "filter"
              /\ pc # "start" => list_fetch.url = search_url(query)
              /\ list_fetch.nreq <= zyte_max_retries + 1)
    /\ [][list_fetch.st = "returned" => list_fetch' = list_fetch]_vars

\* the list fetch got its page at the second request, after a 520 and a
\* backoff sleep, and the run went through to its end without entering the
\* list fetch again
C18_Witness ==
    /\ pc = "done"
    /\ list_fetch.st = "returned"
    /\ list_fetch.url = search_url(query)
    /\ list_fetch.nreq = 2
    /\ Len(list_fetch.slept) = 1
    /\ list_fetch.html = SearchThree

(***************************************************************************)
(* One detail fetch in local mode, checked under SpecFetch.                *)
(***************************************************************************)
\* the URL of the fetch passes the snapshot filter (fetcher.py 216-221)
PassedFilter == has_snapshot([url |-> list_fetch.url])

\* the file that the filter found: product_<code>.html for the code of the
\* URL (fetcher.py 219)
SnapshotOf == files[ProductFile(asin_search(list_fetch.url)[1])]

\* the fetch has not left the snapshot: no post, no backoff sleep, and what
\* it returned is the text of the file that the filter found
FromSnapshot ==
    /\ list_fetch.st \in {"idle", "returned"}
    /\ list_fetch.nreq = 0
    /\ list_fetch.slept = <<>>
    /\ list_fetch.st = "returned" => list_fetch.html = SnapshotOf

Finished ==
    /\ pc = "done"
    /\ \A i \in 1..Len(tasks) : task_done(tasks[i])
    /\ Len(saved) = 2
    /\ saved[1].sink = "save_to_jsonl"
    /\ saved[2].sink = "save_to_csv"
    /\ saved[1].products = saved[2].products
    /\ returned = <<detailed_products>>

\* C26: a fetch posts at most max_retries + 1 times and sleeps at most
\* max_retries times; a run (it has a credential) ends, whatever the
\* responses are: every task gets done, the sink is called and the run
\* returns; and the sink is not called a second time.
C26_Terminates ==
    /\ [](\A i \in FetchIds :
              /\ F(i).nreq <= zyte_max_retries + 1
              /\ F(i).retry_count <= zyte_max_retries
              /\ Len(F(i).slept) <= zyte_max_retries)
    /\ <>Finished
    /\ [][saved # <<>> => saved' = saved /\ returned' = returned]_vars

\* the list fetch was banned max_retries + 1 times, with a backoff sleep
\* after each but the last, and the run called the sink with no records
\* and returned
C26_Witness ==
    /\ Finished
    /\ list_fetch.nreq = zyte_max_retries + 1
    /\ Len(list_fetch.slept) = zyte_max_retries
    /\ list_fetch.resp.status = STATUS_BAN
    /\ returned = <<<<>>>>

(***************************************************************************)
(* SpecParse: one call of a function of parsers.py on a parsed document.   *)
(* A document (soup) is what its selectors find in it.                     *)
(***************************************************************************)
\* no run of scrape_products is under way
NoRun ==
    /\ zyte_api_key = ApiKey
    /\ use_local_html = FALSE
    /\ files = NoFiles
    /\ query = QueryLamp
    /\ n = default_product_limit
    /\ pc = "parse"
    /\ list_fetch = NewFetch(<<>>)
    /\ candidates = <<>>
    /\ basic_products = <<>>
    /\ tasks = <<>>
    /\ completion = <<>>
    /\ pacing = 0
    /\ results = <<>>
    /\ detailed_products = <<>>
    /\ saved = <<>>
    /\ returned = <<>>

\* URLs for extract_asin
AsinUrls ==
    {UrlA, UrlB, UrlC, UrlShort, UrlOther, UrlLower, UrlLong, UrlShortThenA,
     UrlLowerThenB, <<>>}

\* documents for extract_asin: without input[name="ASIN"], with one whose
\* value is an identifier, with one whose value is empty
AsinSoups == {[asin_input |-> v] : v \in {NoStr, Some(AsinC), Some(AsinB), Some(<<>>)}}

AsinCalls ==
    {[fn |-> "extract_asin", st |-> "called", url |-> u, soup |-> d, result |-> NoStr] :
        u \in AsinUrls, d \in AsinSoups}

\* extract_asin(soup, url) returns
ExtractAsin ==
    /\ parse.fn = "extract_asin"
    /\ parse.st = "called"
    /\ parse' = [parse EXCEPT !.st = "returned",
                              !.result = extract_asin(parse.soup, parse.url)]
    /\ UNCHANGED run_vars

\* the texts of the rows the model draws from
RowCombined ==
    <<"P","r","o","d","u","c","t"," ","D","i","m","e","n","s","i","o","n",
      "s",":"," ","1","0"," ","x"," ","5"," ","x"," ","2"," ","i","n","c",
      "h","e","s"," ",";"," ","2",".","2"," ","p","o","u","n","d","s">>
RowDims ==
    <<"D","i","m","e","n","s","i","o","n","s",":"," ","5","x","5","x","5",
      " ","c","m">>
RowSize ==
    <<"s","i","z","e"," ",":"," ","9"," ","i","n">>
RowWeight ==
    <<"I","t","e","m"," ","W","e","i","g","h","t",":"," ","5","0","0"," ",
      "g">>
RowWeightLabel ==
    <<"I","t","e","m"," ","W","e","i","g","h","t",":">>
RowNoUnit ==
    <<"LRM","I","T","E","M"," "," ","D","I","M","E","N","S","I","O","N","S",
      " ","\n",":","\t","4"," ","x"," ","4"," ","c","m",";"," ","m","a","t",
      "t","e">>
RowTwoUnits ==
    <<"S","i","z","e",":"," ","1"," ","i","n",";"," ","3"," ","o","z",";",
      " ","4"," ","k","g">>
RowBlank ==
    <<" "," ">>
RowTexts ==
    {RowCombined, RowDims, RowSize, RowWeight, RowWeightLabel, RowNoUnit,
     RowTwoUnits, RowBlank}

\* the rows of all tables together are at most MaxRows
MaxRows == 3

RowLists == UNION {[1..k -> RowTexts] : k \in 1..MaxRows}

\* what soup.select finds: no table, one table, or two tables of which the
\* first has one row
TableLists ==
    {<<>>} \cup {<<rows>> : rows \in RowLists}
           \cup {<<<<Head(rows)>>, Tail(rows)>> : rows \in {l \in RowLists : Len(l) >= 2}}

\* the call, after the tables were selected: t and r are the table and the
\* row the loops are at, row is the text of the row handled last
DimensionCalls ==
    {[fn |-> "extract_dimensions_and_weight", st |-> "scanning", tables |-> ts,
      t |-> 1, r |-> 1, row |-> <<>>, dims |-> NoStr, weight |-> NoStr,
      result |-> NoStr] : ts \in TableLists}

\* the loops have a row to handle
has_row == parse.t <= Len(parse.tables)

\* the loops go on to the next row, or leave the last table
next_position(tables, t, r) ==
    IF r < Len(tables[t]) THEN [t |-> t, r |-> r + 1] ELSE [t |-> t + 1, r |-> 1]

\* the loop handles the row it is at
ScanRow ==
    /\ parse.fn = "extract_dimensions_and_weight"
    /\ parse.st = "scanning"
    /\ has_row
    /\ LET raw == parse.tables[parse.t][parse.r]
           v == scan_row(raw, parse.dims, parse.weight)
           p == next_position(parse.tables, parse.t, parse.r)
       IN  parse' = [parse EXCEPT !.row = raw, !.dims = v.dims, !.weight = v.weight,
                                  !.t = p.t, !.r = p.r]
    /\ UNCHANGED run_vars

\* the loops are over and the function returns (parsers.py 126)
ReturnDimensions ==
    /\ parse.fn = "extract_dimensions_and_weight"
    /\ parse.st = "scanning"
    /\ ~has_row
    /\ parse' = [parse EXCEPT !.st = "returned",
                              !.result = [dims |-> parse.dims, weight |-> parse.weight]]
    /\ UNCHANGED run_vars

\* documents for get_product_details: the three detail pages of the runs
\* (nothing found, only the form input found, a parse that raises), a page
\* on which every selector finds an element, a page whose elements have no
\* text, and a page whose byline element has no text
DocRich ==
    [DetailPlain EXCEPT
        !.title = Some(<<" "," ","D","e","s","k"," ","\n"," ","L","a","m","p"," ">>),
        !.price = <<NoStr, Some(<<>>), Some(<<"$","1","2",".","5","0">>), Some(<<"1","2">>)>>,
        !.rating = <<NoStr, Some(<<"4",".","5"," ","o","u","t"," ","o","f"," ","5">>)>>,
        !.review_count = Some(<<"1","2"," ","r","a","t","i","n","g","s">>),
        !.bullets = <<<<" "," ">>, <<" ","B","r","i","g","h","t"," ">>>>,
        !.brand = Some(<<"V","i","s","i","t"," ","t","h","e"," ","L","u","m","o"," ","S","t","o","r","e">>),
        !.image_src = Some(<<"h","t","t","p","s",":","/","/","i","m","g","/","x",".","j","p","g">>),
        !.breadcrumbs = <<<<"H","o","m","e">>, <<"L","a","m","p","s">>>>,
        !.tables = <<<<RowCombined>>>>]
DocBlank ==
    [DetailPlain EXCEPT
        !.title = Some(<<>>),
        !.price = <<Some(<<>>), Some(<<>>), Some(<<>>), Some(<<>>)>>,
        !.rating = <<Some(<<>>), Some(<<"4",".","5"," ","o","u","t"," ","o","f"," ","5">>)>>,
        !.review_count = Some(<<>>),
        !.bullets = <<<<" "," ">>>>,
        !.tables = <<<<RowBlank>>>>]
DocBlankBrand == [DetailPlain EXCEPT !.brand = Some(<<>>)]
DetailDocs == DetailPages \cup {DocRich, DocBlank, DocBlankBrand}

DetailUrls == {UrlA, UrlB, UrlShort, UrlOther, UrlLower}

\* get_product_details(url) with its fetch returned: html is what it got
DetailCalls ==
    {[fn |-> "get_product_details", st |-> "called", url |-> u, soup |-> d,
      result |-> NoProduct] : u \in DetailUrls, d \in DetailDocs \cup {NoneHtml}}

\* get_product_details returns (fetcher.py 184-197)
ExtractDetails ==
    /\ parse.fn = "get_product_details"
    /\ parse.st = "called"
    /\ parse' = [parse EXCEPT !.st = "returned",
                              !.result = get_product_details(parse.url, parse.soup)]
    /\ UNCHANGED run_vars

\* what a selector finds: no element, an element without text, with
\* whitespace only, with a text to normalize, with a plain text
ElementTexts ==
    {NoStr, Some(<<>>), Some(<<" ">>), Some(<<" ","$","5","\n">>), Some(<<"$","7">>)}

\* documents for extract_price: what the four selectors of PRICE_SELECTORS
\* find (parsers.py 5-10)
PriceSoups == {[price |-> <<a, b, c, d>>] : a, b, c, d \in ElementTexts}

\* documents for extract_rating: what its two selectors find
RatingSoups == {[rating |-> <<a, b>>] : a, b \in ElementTexts}

ChainCalls ==
    {[fn |-> "extract_price", st |-> "called", soup |-> d, result |-> NoStr] :
        d \in PriceSoups}
    \cup {[fn |-> "extract_rating", st |-> "called", soup |-> d, result |-> NoStr] :
             d \in RatingSoups}

\* extract_price(soup) returns
ExtractPrice ==
    /\ parse.fn = "extract_price"
    /\ parse.st = "called"
    /\ parse' = [parse EXCEPT !.st = "returned", !.result = extract_price(parse.soup)]
    /\ UNCHANGED run_vars

\* extract_rating(soup) returns
ExtractRating ==
    /\ parse.fn = "extract_rating"
    /\ parse.st = "called"
    /\ parse' = [parse EXCEPT !.st = "returned", !.result = extract_rating(parse.soup)]
    /\ UNCHANGED run_vars

\* brand names: a plain one, one that ends in " Store", one that starts
\* with "Visit the ", one with " Store" inside a word, and the word Store
BrandNames ==
    {<<"A","c","m","e">>,
     <<"B","o","o","k"," ","S","t","o","r","e">>,
     <<"V","i","s","i","t"," ","t","h","e"," ","W","o","r","l","d">>,
     <<"A","p","p"," ","S","t","o","r","e","f","r","o","n","t">>,
     <<"S","t","o","r","e">>}

\* the byline texts: the brand behind the label, in two spellings of the
\* label, and the brand in the storefront phrase
Labelled(x) == BrandLabel \o <<" ">> \o x
LabelledLower(x) == lower(BrandLabel) \o <<" ", " ">> \o x
Storefront(x) == VisitThe \o x \o SpaceStore

\* documents for extract_brand: no #bylineInfo, one without text, and the
\* bylines of the brand names
BrandSoups ==
    {[brand |-> b] :
        b \in {NoStr, Some(<<>>)}
              \cup {Some(Labelled(x)) : x \in BrandNames}
              \cup {Some(LabelledLower(x)) : x \in BrandNames}
              \cup {Some(Storefront(x)) : x \in BrandNames}
              \cup {Some(x) : x \in BrandNames}}

BrandCalls ==
    {[fn |-> "extract_brand", st |-> "called", soup |-> d, result |-> NoStr] :
        d \in BrandSoups}

\* extract_brand(soup) returns or raises
ExtractBrand ==
    /\ parse.fn = "extract_brand"
    /\ parse.st = "called"
    /\ parse' = IF extract_brand_raises(parse.soup)
                THEN [parse EXCEPT !.st = "raised"]
                ELSE [parse EXCEPT !.st = "returned",
                                   !.result = extract_brand(parse.soup)]
    /\ UNCHANGED run_vars

InitParse ==
    /\ NoRun
    /\ parse \in AsinCalls \cup DimensionCalls \cup DetailCalls \cup ChainCalls
                 \cup BrandCalls

NextParse ==
    \/ ExtractAsin
    \/ ScanRow
    \/ ReturnDimensions
    \/ ExtractDetails
    \/ ExtractPrice
    \/ ExtractRating
    \/ ExtractBrand

SpecParse == InitParse /\ [][NextParse]_vars

(***************************************************************************)
(* Properties of the parsers, checked under SpecParse.                     *)
(***************************************************************************)
UpperAlnum ==
    {"A","B","C","D","E","F","G","H","I","J","K","L","M","N","O","P","Q","R",
     "S","T","U","V","W","X","Y","Z","0","1","2","3","4","5","6","7","8","9"}
Alnum ==
    UpperAlnum \cup
    {"a","b","c","d","e","f","g","h","i","j","k","l","m","n","o","p","q","r",
     "s","t","u","v","w","x","y","z"}

\* "/dp/" at position i of url, followed by ten characters of alphabet
CodeAt(url, i, alphabet) ==
    /\ i + 13 <= Len(url)
    /\ SubSeq(url, i, i + 3) = <<"/","d","p","/">>
    /\ \A k \in (i + 4)..(i + 13) : url[k] \in alphabet

\* the positions of the codes of url
CodePositions(url, alphabet) == {i \in 1..Len(url) : CodeAt(url, i, alphabet)}

\* the leftmost code of url
FirstCode(url, alphabet) ==
    LET i == CHOOSE i \in CodePositions(url, alphabet) :
                 \A j \in CodePositions(url, alphabet) : i <= j
    IN  SubSeq(url, i + 4, i + 13)

\* extract_asin gives the code of the URL where the URL has a code over
\* alphabet, and the value of the form input elsewhere
UrlCodeFirst(alphabet) ==
    (parse.fn = "extract_asin" /\ parse.st = "returned") =>
        IF CodePositions(parse.url, alphabet) # {}
        THEN parse.result = Some(FirstCode(parse.url, alphabet))
        ELSE parse.result = parse.soup.asin_input

\* C13 as stated: a URL with ten alphanumeric characters after "/dp/" gives
\* that code whatever the form input is, and only a URL without such a code
\* gives the value of the form input (None without input).
C13_AlnumCodeFromUrl == UrlCodeFirst(Alnum)

\* C13, amended: a URL with ten characters of A-Z and 0-9 after "/dp/" gives
\* that code whatever the form input is, and only a URL without such a code
\* gives the value of the form input (None without input).
C13_UpperCodeFromUrl == UrlCodeFirst(UpperAlnum)

\* extract_asin has returned the code of a URL although the document has a
\* form input with another identifier
C13_Witness ==
    /\ parse.fn = "extract_asin"
    /\ parse.st = "returned"
    /\ parse.url = UrlB
    /\ parse.soup.asin_input = Some(AsinC)
    /\ parse.result = Some(AsinB)

\* the text of a row as the disambiguator reads it: cleaned, None for a row
\* without text
RowText(raw) == _clean_text(raw)

\* a row that is looked at for dimensions, for weight
DimensionCandidate(raw) ==
    /\ RowText(raw) \notin {NoStr, Some(<<>>)}
    /\ \/ Contains(lower(RowText(raw)[1]), WordDimension)
       \/ Contains(lower(RowText(raw)[1]), WordSize)
WeightCandidate(raw) ==
    /\ RowText(raw) \notin {NoStr, Some(<<>>)}
    /\ Contains(lower(RowText(raw)[1]), WordWeight)

\* the clauses of a dimension row: its text without the label, cut at ";"
Clauses(raw) == split(sub_label(DimensionLabels, RowText(raw)[1]), ";")

\* the later clauses with a weight-unit token
UnitClauses(raw) ==
    SelectSeq(Tail(Clauses(raw)),
              LAMBDA c : \E u \in WeightUnits : Contains(lower(c), u))

\* the loop has handled a row, whose text is parse.row
RowHandled ==
    /\ parse.fn = "extract_dimensions_and_weight"
    /\ parse.row # <<>>

TenByFiveByTwo == <<"1","0"," ","x"," ","5"," ","x"," ","2"," ","i","n","c","h","e","s">>
TwoPointTwoPounds == <<"2",".","2"," ","p","o","u","n","d","s">>

\* C14: after a dimension row whose text without the label has a later
\* clause with a weight-unit token, dimensions is the trimmed first clause
\* and weight is that later clause, trimmed (the last one when there are
\* several); "Product Dimensions: 10 x 5 x 2 inches ; 2.2 pounds" gives
\* "10 x 5 x 2 inches" and "2.2 pounds".
C14_EmbeddedWeight ==
    RowHandled =>
        /\ (DimensionCandidate(parse.row) /\ UnitClauses(parse.row) # <<>>) =>
               /\ parse.dims = Some(strip(Head(Clauses(parse.row))))
               /\ parse.weight =
                      Some(strip(UnitClauses(parse.row)[Len(UnitClauses(parse.row))]))
        /\ parse.row = RowCombined =>
               /\ parse.dims = Some(TenByFiveByTwo)
               /\ parse.weight = Some(TwoPointTwoPounds)

\* the combined row was handled after a row that had set dimensions and
\* weight, and both values are those of the combined row
C14_Witness ==
    /\ RowHandled
    /\ parse.tables = <<<<RowDims, RowWeight, RowCombined>>>>
    /\ parse.row = RowCombined
    /\ parse.dims = Some(TenByFiveByTwo)
    /\ parse.weight = Some(TwoPointTwoPounds)

\* C15: once a dimension row has set the dimensions value, no later row
\* changes it, in this table or in a later one: the value returned is the
\* one of the first dimension row.
C15_FirstDimensionsWins ==
    [][(/\ parse.fn = "extract_dimensions_and_weight"
        /\ parse.dims # NoStr) => parse'.dims = parse.dims]_vars

\* a step of the loop that handles a row with "weight" in it and neither
\* "dimension" nor "size"; parse'.row is the row it handles
SeparateWeightStep ==
    /\ parse.fn = "extract_dimensions_and_weight"
    /\ parse'.st = "scanning"
    /\ WeightCandidate(parse'.row)
    /\ ~DimensionCandidate(parse'.row)

\* all rows of the call, table after table
RECURSIVE AllRows(_)
AllRows(tables) == IF tables = <<>> THEN <<>> ELSE Head(tables) \o AllRows(Tail(tables))

FiveCubedCm == <<"5","x","5","x","5"," ","c","m">>
FiveHundredG == <<"5","0","0"," ","g">>

\* the two examples: a dimension row and a weight row give both values, and
\* after a combined row a weight row leaves the embedded weight
WeightExamples ==
    (parse.fn = "extract_dimensions_and_weight" /\ parse.st = "returned") =>
        /\ AllRows(parse.tables) = <<RowDims, RowWeight>> =>
               parse.result = [dims |-> Some(FiveCubedCm), weight |-> Some(FiveHundredG)]
        /\ AllRows(parse.tables) = <<RowCombined, RowWeight>> =>
               parse.result = [dims |-> Some(TenByFiveByTwo),
                               weight |-> Some(TwoPointTwoPounds)]

\* C16 as stated: a separate weight row never changes the dimensions value,
\* and changes the weight value only if no earlier row has set one.
C16_WeightOnlyIfUnset ==
    /\ []WeightExamples
    /\ [][SeparateWeightStep =>
              /\ parse'.dims = parse.dims
              /\ parse.weight # NoStr => parse'.weight = parse.weight]_vars

\* C16, amended: a separate weight row never changes the dimensions value,
\* and changes the weight value only if no earlier row has set a weight
\* that is not empty.
C16_WeightOnlyIfEmpty ==
    /\ []WeightExamples
    /\ [][SeparateWeightStep =>
              /\ parse'.dims = parse.dims
              /\ parse.weight \notin {NoStr, Some(<<>>)} =>
                     parse'.weight = parse.weight]_vars

\* a combined row in a first table and a weight row in a second one were
\* handled, and the weight returned is the embedded one
C16_Witness ==
    /\ parse.fn = "extract_dimensions_and_weight"
    /\ parse.st = "returned"
    /\ parse.tables = <<<<RowCombined>>, <<RowWeight>>>>
    /\ parse.row = RowWeight
    /\ parse.result = [dims |-> Some(TenByFiveByTwo), weight |-> Some(TwoPointTwoPounds)]

\* no selector of the detail fields finds an element in the document
NothingMatches(html) ==
    /\ html.kind = "page"
    /\ ~html.parse_raises
    /\ html.asin_input = NoStr
    /\ html.title = NoStr
    /\ \A k \in 1..Len(html.price) : html.price[k] = NoStr
    /\ \A k \in 1..Len(html.rating) : html.rating[k] = NoStr
    /\ html.review_count = NoStr
    /\ html.brand = NoStr
    /\ html.image_src = NoStr
    /\ html.bullets = <<>>
    /\ html.breadcrumbs = <<>>
    /\ html.tables = <<>>

\* the Optional[str] fields of a record other than its URL
OptionalText ==
    {"asin", "title", "brand", "price", "rating", "review_count", "dimensions",
     "weight", "image_url"}

\* get_product_details has returned for a document in which no selector
\* finds an element
ExtractedFromNothing ==
    /\ parse.fn = "get_product_details"
    /\ parse.st = "returned"
    /\ NothingMatches(parse.soup)

\* the record is kept in the output, has the URL that was given and empty
\* lists, and its text fields other than those of present are None; what
\* goes to the sink has the fields that are not None and nothing else
KeptWith(present) ==
    LET p == parse.result
    IN  /\ p # NoProduct
        /\ not_none(<<p>>) = <<p>>
        /\ p.url = parse.url
        /\ p.bullet_features = <<>>
        /\ p.breadcrumbs = <<>>
        /\ \A f \in OptionalText \ present : p[f] = NoStr
        /\ \A f \in present : p[f] # NoStr
        /\ DOMAIN model_dump(p) = {"url", "bullet_features", "breadcrumbs"} \cup present
        /\ model_dump(p).url = parse.url

\* C17 as stated: for a document in which no field selector finds anything
\* the detail operation does not fail; the record has the given URL, every
\* optional text field absent and empty lists, is serializable, and is kept
\* in the output.
C17_EveryTextFieldAbsent == ExtractedFromNothing => KeptWith({})

\* C17, amended: as stated, except that the identifier is absent only for a
\* URL without a code; for a URL with a code it is that code.
C17_AbsentButUrlCode ==
    ExtractedFromNothing =>
        IF CodePositions(parse.url, UpperAlnum) # {}
        THEN /\ KeptWith({"asin"})
             /\ parse.result.asin = Some(FirstCode(parse.url, UpperAlnum))
        ELSE KeptWith({})

\* a record was made from a document in which nothing is found, for a URL
\* without a code: nothing but the URL and the two empty lists goes to the
\* sink
C17_Witness ==
    /\ ExtractedFromNothing
    /\ parse.url = UrlOther
    /\ parse.result # NoProduct
    /\ parse.result.title = NoStr
    /\ parse.result.asin = NoStr
    /\ model_dump(parse.result) =
           [url |-> UrlOther, bullet_features |-> <<>>, breadcrumbs |-> <<>>]

RECURSIVE FirstWithText(_)
\* the chain as the claim has it: the normalized text of the first element
\* that exists and has a text that is not empty, absent when there is none
FirstWithText(els) ==
    IF els = <<>> THEN NoStr
    ELSE IF Head(els) # NoStr /\ Head(els)[1] # <<>>
    THEN Some(strip(join_split(SelectSeq(Head(els)[1],
                                         LAMBDA c : c \notin {"LRM", "RLM"}), 1)))
    ELSE FirstWithText(Tail(els))

\* the elements the chain of the call looks at, in the order of its selectors
ChainElements == IF parse.fn = "extract_price" THEN parse.soup.price ELSE parse.soup.rating

ChainReturned ==
    parse.fn \in {"extract_price", "extract_rating"} /\ parse.st = "returned"

\* C22: price and rating are the normalized text of the first selector of
\* their chain whose element exists and has a text that is not empty, an
\* element without text being skipped; the field is never the empty string.
C22_UniformFallbackChain ==
    ChainReturned =>
        /\ parse.result = FirstWithText(ChainElements)
        /\ parse.result # Some(<<>>)

\* the text of a dimension row without its label
Unlabelled(raw) == sub_label(DimensionLabels, RowText(raw)[1])

\* C23: a step of the row loop on a dimension row whose text without the
\* label has no later clause with a weight-unit token sets dimensions to
\* that whole text, the text after a semicolon included, and its dimension
\* handling leaves the weight as it was.
C23_WholeTextWithoutUnit ==
    [][(/\ RowHandled'
        /\ parse'.st = "scanning"
        /\ DimensionCandidate(parse'.row)
        /\ UnitClauses(parse'.row) = <<>>)
       => /\ parse'.dims = Some(Unlabelled(parse'.row))
          /\ ~WeightCandidate(parse'.row) => parse'.weight = parse.weight]_vars

BrandReturned == parse.fn = "extract_brand" /\ parse.st = "returned"

\* C24: for every brand name X the byline "Brand: X", whatever the case of
\* the label, gives X, and the byline "Visit the X Store" gives X, also
\* when X has " Store" or "Visit the " in it; a byline that is the name
\* alone gives the name.
C24_BrandCleanup ==
    BrandReturned =>
        \A x \in BrandNames :
            parse.soup.brand \in {Some(Labelled(x)), Some(LabelledLower(x)),
                                  Some(Storefront(x)), Some(x)}
                => parse.result = Some(x)

====
